---- MODULE Spec2Model ----
(***************************************************************************)
(* State-machine model of the bounded-concurrency extraction pipeline of   *)
(* webpage-md-extractor: main() (src/main.py) submits one extract_url call *)
(* per target to a ThreadPoolExecutor and folds the futures' outcomes into *)
(* a report; extract_url (src/extractor.py) runs fetch -> clean -> convert *)
(* -> save inside a retry loop with exponential backoff.                   *)
(***************************************************************************)
EXTENDS Integers, Sequences, FiniteSets, TLC

\* ------------------------------------------------------------------ config
\* src/config.py
MAX_RETRIES == 3
MAX_WORKERS == 3

\* Largest work set explored (number of targets submitted in one run).
MaxItems == 4

\* Largest number of transient faults (a browser, page or disk failure that
\* the target itself does not force) the environment injects in one run.
MaxFaults == 3

\* ------------------------------------------------------------------- paths
\* A path is a sequence of components below the filesystem root "/".
\* The process runs in Cwd; OUTPUT_DIR = "./output" is Cwd/output.
Cwd == <<"work">>
OUTPUT_DIR == Cwd \o <<"output">>

\* Directories that exist once main() has created the output directory
\* (src/main.py:20).  Nothing in the program creates any other directory.
Dirs == {<<>>, Cwd, OUTPUT_DIR}

\* A title is the text put before ".md"; it is kept as its "/"-separated
\* components together with whether it starts with "/".
Title(abs, parts) == [abs |-> abs, parts |-> parts]

\* pathlib's Path.__truediv__: joining an absolute right operand discards the
\* left operand, otherwise the components are appended unchanged (".."
\* components are kept, pathlib does not normalise them).
PathJoin(base, t) == IF t.abs THEN t.parts ELSE base \o t.parts

\* The operating system's resolution of a path at open(): ".." steps to the
\* parent (the parent of "/" is "/").
RECURSIVE Resolve(_, _)
Resolve(done, rest) ==
  IF rest = <<>> THEN done
  ELSE IF Head(rest) = ".."
       THEN Resolve(IF done = <<>> THEN <<>> ELSE SubSeq(done, 1, Len(done) - 1),
                    Tail(rest))
       ELSE Resolve(Append(done, Head(rest)), Tail(rest))

\* output_path of _save_markdown, as the file the OS opens.
OutputPath(title) == Resolve(<<>>, PathJoin(OUTPUT_DIR, title))

Parent(p) == SubSeq(p, 1, Len(p) - 1)

IsPrefix(p, q) == Len(p) <= Len(q) /\ SubSeq(q, 1, Len(p)) = p

\* p lies strictly below the output directory.
UnderOutputDir(p) == IsPrefix(OUTPUT_DIR, p) /\ Len(p) > Len(OUTPUT_DIR)

\* ----------------------------------------------------------------- targets
\* A target: url and title.  A url is modelled by whether the browser can
\* navigate to it at all (a malformed url makes driver.get raise each time).
Target(url, wellFormed, title) ==
  [url |-> url, wellFormed |-> wellFormed, title |-> title]

\* The two targets cycled through to build work sets of every size (as
\* config.py lists two): an ordinary one and one whose url is malformed.  A
\* work set of three or more repeats them.
Catalog ==
  << Target("A", TRUE, Title(FALSE, <<"x">>)),
     Target("bad", FALSE, Title(FALSE, <<"y">>)) >>

Take(n) == [i \in 1..n |-> Catalog[((i - 1) % Len(Catalog)) + 1]]

\* Further work sets: two ordinary targets with different titles; two with
\* the same title; titles that leave the output directory ("../x" and "/x");
\* and a title naming a directory that does not exist ("d/x").
Extras ==
  { << Target("A", TRUE, Title(FALSE, <<"x">>)),
       Target("B", TRUE, Title(FALSE, <<"z">>)) >>,
    << Target("A", TRUE, Title(FALSE, <<"x">>)),
       Target("B", TRUE, Title(FALSE, <<"x">>)) >>,
    << Target("A", TRUE, Title(FALSE, <<"..", "x">>)) >>,
    << Target("A", TRUE, Title(TRUE, <<"x">>)) >>,
    << Target("A", TRUE, Title(FALSE, <<"d", "x">>)) >> }

WorkSets == {Take(n) : n \in 0..MaxItems} \cup Extras

\* ------------------------------------------------------------------- state
VARIABLES
  targets,     \* config.targets: the work set of this run
  maxRetries,  \* config.MAX_RETRIES: the retry limit of this run
  cleaner,     \* a call of _clean_html on its own: its input, soup and result
  mainpc,      \* main(): "submit" | "collect" | "done"
  results,     \* main()'s results list
  collected,   \* futures as_completed has already yielded
  report,      \* what main() prints: success_count, failure_count, len(results)
  worker,      \* worker[w]: the future pool thread w is running, or 0 if idle
  pc,          \* per future: where its extract_url call stands
  attempt,     \* per future: the loop variable of extract_url
  driver,      \* per future: _fetch_html's local "driver" is a WebDriver (not None)
  sessions,    \* the live browser sessions, each named by the call that launched it
  html,        \* per future: the value _fetch_html is about to return / returned
  ret,         \* per future: "none" | "True" | "False" | "raise"
  files,       \* the filesystem: path -> content of each regular file
  fetchCalls,  \* per future: number of _fetch_html calls made
  failed,      \* per future: number of attempts that ended in the except block
  sleeps,      \* per future: the durations passed to time.sleep, in order
  faults,      \* number of transient faults injected so far in this run
  events,      \* per future: what the call fetched, logged and slept, in order
  stages       \* per future: the stages its current (or last) attempt invoked

vars == << targets, maxRetries, cleaner, mainpc, results, collected, report, worker,
           pc, attempt, driver, sessions, html, ret, files, fetchCalls, failed,
           sleeps, faults, events, stages >>

\* What no step of a run changes.
fixedVars == << targets, maxRetries, cleaner >>
mainVars == << mainpc, results, collected, report >>
histVars == << fetchCalls, failed, sleeps >>
obsVars == << events, stages >>

Futures == 1..Len(targets)

\* A pool one thread larger than configured.
PoolSizeOffByOne == MAX_WORKERS + 1

\* ThreadPoolExecutor(max_workers=MAX_WORKERS): the number of pool threads.
PoolSize == MAX_WORKERS
Workers == 1..PoolSize

\* --------------------------------------------------------------- documents
\* A parsed page (BeautifulSoup(html, "lxml"), extractor.py:124) is the
\* sequence of its top-level elements.  An element has a tag, the attributes
\* _clean_html looks at (class tokens, id, role, aria-label), its own text
\* and its child elements in document order.
Elem(tag, kids) ==
  [tag |-> tag, class |-> {}, id |-> "", role |-> "", aria |-> "",
   text |-> "", kids |-> kids]

Text(t) == [Elem("p", <<>>) EXCEPT !.text = t]

\* extractor.py:127-133, in order.
UnwantedSelectors ==
  << [by |-> "tag", v |-> "nav"], [by |-> "tag", v |-> "footer"],
     [by |-> "tag", v |-> "header"], [by |-> "tag", v |-> "aside"],
     [by |-> "tag", v |-> "script"], [by |-> "tag", v |-> "style"],
     [by |-> "tag", v |-> "iframe"], [by |-> "tag", v |-> "noscript"],
     [by |-> "class", v |-> "ad"], [by |-> "class", v |-> "advertisement"],
     [by |-> "id", v |-> "ads"],
     [by |-> "role", v |-> "navigation"], [by |-> "role", v |-> "banner"],
     [by |-> "role", v |-> "complementary"],
     [by |-> "aria", v |-> "Advertisement"] >>

\* Whether element n matches a CSS selector of the list: a tag name, ".class"
\* (one of the class tokens), "#id" or "[attribute='value']".
Matches(n, sel) ==
  CASE sel.by = "tag" -> n.tag = sel.v
    [] sel.by = "class" -> sel.v \in n.class
    [] sel.by = "id" -> n.id = sel.v
    [] sel.by = "role" -> n.role = sel.v
    [] sel.by = "aria" -> n.aria = sel.v

\* An element the selector finds is taken out alone: what it holds stays in
\* its place.
DecomposeUnwraps(soup, sel) ==
  LET RECURSIVE Unwrap(_)
      Unwrap(ns) ==
        IF ns = <<>> THEN <<>>
        ELSE IF Matches(Head(ns), sel)
             THEN Unwrap(Head(ns).kids) \o Unwrap(Tail(ns))
             ELSE << [Head(ns) EXCEPT !.kids = Unwrap(Head(ns).kids)] >>
                    \o Unwrap(Tail(ns))
  IN Unwrap(soup)

\* extractor.py:136-137 for one selector: every element soup.select finds is
\* decomposed, that is removed together with everything below it.
RECURSIVE Decompose(_, _)
Decompose(soup, sel) ==
  IF soup = <<>> THEN <<>>
  ELSE LET n == Head(soup)
           rest == Decompose(Tail(soup), sel)
       IN IF Matches(n, sel) THEN rest
          ELSE << [n EXCEPT !.kids = Decompose(n.kids, sel)] >> \o rest

\* extractor.py:135-137: the selectors from the k-th on are applied in turn.
RECURSIVE RemoveFrom(_, _)
RemoveFrom(soup, k) ==
  IF k > Len(UnwantedSelectors) THEN soup
  ELSE RemoveFrom(Decompose(soup, UnwantedSelectors[k]), k + 1)

RemoveUnwanted(soup) == RemoveFrom(soup, 1)

\* The elements of a document in document order (an element before its
\* children, the children before its next sibling).
RECURSIVE Descendants(_)
Descendants(soup) ==
  IF soup = <<>> THEN <<>>
  ELSE << Head(soup) >> \o Descendants(Head(soup).kids)
         \o Descendants(Tail(soup))

\* The five lookups of extractor.py:141-145, in order: find("main"),
\* find("article"), find("div", class_="content"), find("div", id="content"),
\* find("div", role="main").
ContentLookups ==
  << [tag |-> "main", by |-> "tag", v |-> "main"],
     [tag |-> "article", by |-> "tag", v |-> "article"],
     [tag |-> "div", by |-> "class", v |-> "content"],
     [tag |-> "div", by |-> "id", v |-> "content"],
     [tag |-> "div", by |-> "role", v |-> "main"] >>

\* soup.find: the first element in document order with the tag and the
\* attribute asked for, as a sequence of one element; <<>> stands for None.
Find(soup, want) ==
  LET hits == SelectSeq(Descendants(soup),
                        LAMBDA n : n.tag = want.tag /\ Matches(n, want))
  IN IF hits = <<>> THEN <<>> ELSE << Head(hits) >>

\* The or-chain of extractor.py:140-146 from the k-th lookup on: a Tag is
\* truthy, None is not, so the first lookup that finds an element wins.
RECURSIVE MainContentFrom(_, _)
MainContentFrom(soup, k) ==
  IF k > Len(ContentLookups) THEN <<>>
  ELSE IF Find(soup, ContentLookups[k]) # <<>>
       THEN Find(soup, ContentLookups[k])
       ELSE MainContentFrom(soup, k + 1)

MainContent(soup) == MainContentFrom(soup, 1)

\* soup.body: the first body element, or None.
Body(soup) == Find(soup, [tag |-> "body", by |-> "tag", v |-> "body"])

\* extractor.py:149: str(main_content) if main_content else
\* str(soup.body or soup).  The markup returned is kept as the elements it
\* renders; <<>> is the empty string.
SelectContent(soup) ==
  IF MainContent(soup) # <<>> THEN MainContent(soup)
  ELSE IF Body(soup) # <<>> THEN Body(soup) ELSE soup

\* _clean_html (extractor.py:114-151).
CleanHtml(h) == SelectContent(RemoveUnwanted(h))

\* _convert_to_markdown (extractor.py:153-175) renders the text of the
\* elements in document order, one line per text.
ConvertToMarkdown(c) ==
  SelectSeq([k \in 1..Len(Descendants(c)) |-> Descendants(c)[k].text],
            LAMBDA t : t # "")

\* driver.page_source for a url that renders (extractor.py:103).  The pages
\* differ from url to url: the page at "B" has no content region and more
\* text than the others, which have a navigation bar and a main region.
PageSource(url) ==
  IF url = "B"
  THEN << Elem("html", << Elem("body", << Text(url), Text(url) >>) >>) >>
  ELSE << Elem("html", << Elem("body",
            << Elem("nav", << Text("menu") >>),
               Elem("main", << Text(url) >>) >>) >>) >>

\* The state main() is in when it reaches the executor (main.py:27-28).
Begin ==
  /\ mainpc = "submit"
  /\ results = <<>>
  /\ collected = {}
  /\ report = [printed |-> FALSE, success |-> 0, failure |-> 0, total |-> 0]
  /\ worker = [w \in Workers |-> 0]
  /\ pc = [i \in Futures |-> "unsubmitted"]
  /\ attempt = [i \in Futures |-> 0]
  /\ driver = [i \in Futures |-> FALSE]
  /\ sessions = {}
  /\ html = [i \in Futures |-> "None"]
  /\ ret = [i \in Futures |-> "none"]
  /\ files = [p \in {} |-> <<>>]
  /\ fetchCalls = [i \in Futures |-> 0]
  /\ failed = [i \in Futures |-> 0]
  /\ sleeps = [i \in Futures |-> <<>>]
  /\ faults = 0
  /\ events = [i \in Futures |-> <<>>]
  /\ stages = [i \in Futures |-> <<>>]

\* No call of _clean_html on its own is under way.
NoCleaner == [stage |-> "idle", html |-> <<>>, soup |-> <<>>, result |-> <<>>]

Init ==
  /\ targets \in WorkSets
  /\ maxRetries = MAX_RETRIES
  /\ cleaner = NoCleaner
  /\ Begin

\* ---------------------------------------------------------------- executor
\* main.py:30-33: the dict comprehension submits one extract_url call per
\* target, in order; the executor queues them.
Submit ==
  /\ mainpc = "submit"
  /\ mainpc' = "collect"
  /\ pc' = [i \in Futures |-> "queued"]
  /\ UNCHANGED << fixedVars, results, collected, report, worker, attempt, driver, sessions,
                  html, ret, files, histVars, faults, obsVars >>

IdleWorkers == {w \in Workers : worker[w] = 0}

\* ThreadPoolExecutor(max_workers=MAX_WORKERS): a queued call starts only on
\* an idle pool thread.
CanStart == IdleWorkers # {}

\* The work queue is first-in first-out.
NextQueued == CHOOSE i \in Futures :
                /\ pc[i] = "queued"
                /\ \A j \in Futures : pc[j] = "queued" => i <= j

\* Ending a call marks every pool thread idle.
ReleaseAll(i) == [w \in Workers |-> 0]

\* The pool thread running future i becomes idle when the call ends.
Release(i) == [w \in Workers |-> IF worker[w] = i THEN 0 ELSE worker[w]]

\* --------------------------------------------------------------- filesystem
\* open(path, "w"): needs the parent directory to exist and the path not to
\* be a directory; creates the file or truncates it to empty.
CanOpen(p) == p # <<>> /\ Parent(p) \in Dirs /\ p \notin Dirs

WriteFile(fs, p, c) == [q \in (DOMAIN fs) \cup {p} |-> IF q = p THEN c ELSE fs[q]]

\* f.write(content) and the close through a descriptor opened with "w": the
\* content goes to the start of the file, over what is there; anything another
\* descriptor has written beyond its end stays.
Overwrite(old, c) == c \o SubSeq(old, Len(c) + 1, Len(old))

\* -------------------------------------------------------------- _fetch_html
\* What the try block of _fetch_html (extractor.py:83-109) can come to, as
\* (session live, value to return):
\*   launch fails (Service/webdriver.Chrome raise)  -> no session, None
\*   a later call raises (set_page_load_timeout, get, the ready wait,
\*     page_source)                                 -> session,    None
\*   page_source is the empty string                -> session,    ""
\*   page_source is the rendered page               -> session,    page
\* driver.get raises on every call for a malformed url.  "fault" marks the
\* outcomes that take a transient fault.
FetchOutcomes(t) ==
  IF t.wellFormed
  THEN { [driver |-> TRUE, html |-> "Page", fault |-> 0],
         [driver |-> TRUE, html |-> "Empty", fault |-> 1],
         [driver |-> TRUE, html |-> "None", fault |-> 1],
         [driver |-> FALSE, html |-> "None", fault |-> 1] }
  ELSE { [driver |-> TRUE, html |-> "None", fault |-> 0],
         [driver |-> FALSE, html |-> "None", fault |-> 1] }

\* A session is named by the future and the attempt whose _fetch_html call
\* launched it (a call launches at most one).
Session(i, a) == [owner |-> i, attempt |-> a]

\* extract_url line 49, in attempt a, calls _fetch_html, which runs its try
\* block up to the return or the except clause (lines 83-109); the finally
\* clause is pending.
FetchTry(i, a) ==
  /\ \E o \in FetchOutcomes(targets[i]) :
       /\ faults + o.fault <= MaxFaults
       /\ faults' = faults + o.fault
       /\ driver' = [driver EXCEPT ![i] = o.driver]
       /\ sessions' = IF o.driver THEN sessions \cup {Session(i, a)} ELSE sessions
       /\ html' = [html EXCEPT ![i] = o.html]
  /\ fetchCalls' = [fetchCalls EXCEPT ![i] = @ + 1]
  /\ events' = [events EXCEPT ![i] = Append(@, <<"fetch", a + 1>>)]
  /\ stages' = [stages EXCEPT ![i] = <<"render">>]

\* A pool thread takes the next queued call, enters extract_url (line 46) and
\* calls _fetch_html (line 49).  The pool threads are interchangeable, so the
\* lowest idle one is taken.  When range(MAX_RETRIES) is empty the loop body
\* never runs: the call falls off the end of extract_url, returning None, and
\* the thread is idle again.
Start ==
  /\ \E i \in Futures : pc[i] = "queued"
  /\ CanStart
  /\ LET i == NextQueued
         w == CHOOSE v \in IdleWorkers : \A u \in IdleWorkers : v <= u
     IN IF maxRetries > 0
        THEN /\ worker' = [worker EXCEPT ![w] = i]
             /\ pc' = [pc EXCEPT ![i] = "browser"]
             /\ attempt' = [attempt EXCEPT ![i] = 0]
             /\ FetchTry(i, 0)
             /\ UNCHANGED ret
        ELSE /\ pc' = [pc EXCEPT ![i] = "done"]
             /\ ret' = [ret EXCEPT ![i] = "None"]
             /\ UNCHANGED << worker, attempt, driver, sessions, html,
                             fetchCalls, faults, obsVars >>
  /\ UNCHANGED << fixedVars, mainVars, files, failed, sleeps >>

\* The finally clause without the quit.
FinallyNoQuit(ss, d, s) == ss

\* extractor.py:110-112, "if driver: driver.quit()": the live sessions after
\* the finally clause of a call whose local driver is d (true: a WebDriver)
\* and whose session is s.
Finally(ss, d, s) == IF d THEN ss \ {s} ELSE ss

\* Only None is taken for a failed fetch ("if html is None").
NotHtmlNoneOnly(h) == h = "None"

\* "if not html" (extractor.py:50): None and the empty string are falsy.
NotHtml(h) == h \in {"None", "Empty"}

\* ------------------------------------------------------ extract_url's retry
\* No failure is retried.
NeverRetry(a) == FALSE

\* The last permitted attempt is followed by a sleep as well.
RetryAfterLast(a) == a < maxRetries

\* extractor.py:67: "if attempt < MAX_RETRIES - 1".
ShouldRetry(a) == a < maxRetries - 1

\* The backoff computed from the 1-based attempt number.
BackoffShifted(a) == 2 ^ (a + 1)

\* extractor.py:68: time.sleep(2 ** attempt).
Backoff(a) == 2 ^ a

\* Failures are logged only when the call gives up: an attempt that will be
\* retried leaves no message.
LoggedAtTheEndOnly(evs, a, then) ==
  IF then[1] = "sleep" THEN Append(evs, then)
  ELSE evs \o << <<"failed", a + 1>>, then >>

\* extractor.py:66-70: what the except block of attempt a + 1 adds to the
\* call's record: first the message "Attempt a+1/MAX_RETRIES failed", then
\* the sleep or the message "All retries exhausted".
Logged(evs, a, then) == evs \o << <<"failed", a + 1>>, then >>

\* The except block of extract_url (extractor.py:65-71), entered after a
\* failure that took c transient faults.  The attempt's exception is logged;
\* then the thread sleeps before the next attempt, or, after the last attempt,
\* extract_url returns False.  A statement of the except block may itself
\* raise (formatting the exception into the log message, line 66): nothing
\* inside extract_url catches that, and the future ends with an exception.
\* The attempt's html is not read again (line 49 assigns it anew), so it is
\* forgotten.
Except(i, c) ==
  /\ faults + c <= MaxFaults
  /\ failed' = [failed EXCEPT ![i] = @ + 1]
  /\ html' = [html EXCEPT ![i] = "None"]
  /\ \/ /\ ShouldRetry(attempt[i])
        /\ events' = [events EXCEPT ![i] =
                        Logged(@, attempt[i],
                               <<"sleep", Backoff(attempt[i])>>)]
        /\ sleeps' = [sleeps EXCEPT ![i] = Append(@, Backoff(attempt[i]))]
        /\ pc' = [pc EXCEPT ![i] = "sleep"]
        /\ faults' = faults + c
        /\ UNCHANGED << ret, worker >>
     \/ /\ ~ShouldRetry(attempt[i])
        /\ events' = [events EXCEPT ![i] =
                        Logged(@, attempt[i],
                               <<"exhausted", attempt[i] + 1>>)]
        /\ pc' = [pc EXCEPT ![i] = "done"]
        /\ ret' = [ret EXCEPT ![i] = "False"]
        /\ worker' = Release(i)
        /\ faults' = faults + c
        /\ UNCHANGED sleeps
     \/ /\ faults + c < MaxFaults
        /\ pc' = [pc EXCEPT ![i] = "done"]
        /\ ret' = [ret EXCEPT ![i] = "raise"]
        /\ worker' = Release(i)
        /\ faults' = faults + c + 1
        /\ UNCHANGED << sleeps, events >>

\* The finally clause of _fetch_html (lines 110-112) and its return of a
\* page; extract_url lines 50-57 clean and convert it (neither touches shared
\* state) and go on to save.
FetchReturns(i) ==
  /\ pc[i] = "browser"
  /\ ~NotHtml(html[i])
  /\ sessions' = Finally(sessions, driver[i], Session(i, attempt[i]))
  /\ driver' = [driver EXCEPT ![i] = FALSE]
  /\ pc' = [pc EXCEPT ![i] = "save"]
  /\ stages' = [stages EXCEPT ![i] = @ \o <<"sanitize", "transform">>]
  /\ UNCHANGED << fixedVars, mainVars, worker, attempt, html, ret,
                  files, histVars, faults, events >>

\* The finally clause of _fetch_html and its return of None or of an empty
\* page; extract_url line 51 raises ValueError, caught at line 65.
FetchFalsy(i) ==
  /\ pc[i] = "browser"
  /\ NotHtml(html[i])
  /\ sessions' = Finally(sessions, driver[i], Session(i, attempt[i]))
  /\ driver' = [driver EXCEPT ![i] = FALSE]
  /\ Except(i, 0)
  /\ UNCHANGED << fixedVars, mainVars, attempt, files, fetchCalls,
                  stages >>

\* ----------------------------------------------------------- _save_markdown
\* extractor.py:54-57: what cleaning and converting make of the page at each
\* url (the content is determined by the url alone).
Urls == {"A", "B", "bad"}
Rendered == [u \in Urls |-> ConvertToMarkdown(CleanHtml(PageSource(u)))]

\* The content extract_url hands to _save_markdown.
Markdown(i) == Rendered[targets[i].url]

\* The open keeps what the file holds (a mode other than "w").
SaveOpenKeeps(i) ==
  /\ pc[i] = "save"
  /\ CanOpen(OutputPath(targets[i].title))
  /\ files' = IF OutputPath(targets[i].title) \in DOMAIN files THEN files
              ELSE WriteFile(files, OutputPath(targets[i].title), <<>>)
  /\ pc' = [pc EXCEPT ![i] = "writing"]
  /\ stages' = [stages EXCEPT ![i] = Append(@, "persist")]
  /\ UNCHANGED << fixedVars, mainVars, worker, attempt, driver,
                  sessions, html, ret, histVars, faults, events >>

\* extractor.py:185-186: aiofiles.open(output_path, "w") succeeds and leaves
\* the file empty.
SaveOpen(i) ==
  /\ pc[i] = "save"
  /\ CanOpen(OutputPath(targets[i].title))
  /\ files' = WriteFile(files, OutputPath(targets[i].title), <<>>)
  /\ pc' = [pc EXCEPT ![i] = "writing"]
  /\ stages' = [stages EXCEPT ![i] = Append(@, "persist")]
  /\ UNCHANGED << fixedVars, mainVars, worker, attempt, driver,
                  sessions, html, ret, histVars, faults, events >>

\* extractor.py:186: the open raises; the file is untouched.  It raises every
\* time when the path cannot be opened (no such directory), and otherwise on
\* a transient fault (permission denied, disk full, ...).
SaveOpenFails(i) ==
  /\ pc[i] = "save"
  /\ Except(i, IF CanOpen(OutputPath(targets[i].title)) THEN 1 ELSE 0)
  /\ stages' = [stages EXCEPT ![i] = Append(@, "persist")]
  /\ UNCHANGED << fixedVars, mainVars, attempt, driver, sessions,
                  files, fetchCalls >>

\* The write succeeds but "return True" is missing: the loop goes on to the
\* next attempt, and falls off its end (returning None) after the last one.
SaveWriteNoReturn(i) ==
  /\ pc[i] = "writing"
  /\ files' = WriteFile(files, OutputPath(targets[i].title),
                        Overwrite(files[OutputPath(targets[i].title)], Markdown(i)))
  /\ IF attempt[i] < maxRetries - 1
     THEN /\ attempt' = [attempt EXCEPT ![i] = @ + 1]
          /\ pc' = [pc EXCEPT ![i] = "browser"]
          /\ FetchTry(i, attempt[i] + 1)
          /\ UNCHANGED << ret, worker >>
     ELSE /\ pc' = [pc EXCEPT ![i] = "done"]
          /\ ret' = [ret EXCEPT ![i] = "None"]
          /\ worker' = Release(i)
          /\ html' = [html EXCEPT ![i] = "None"]
          /\ UNCHANGED << attempt, driver, sessions, fetchCalls, faults,
                          obsVars >>
  /\ UNCHANGED << fixedVars, mainVars, failed, sleeps >>

\* extractor.py:187-188 and extract_url lines 62-63: the write and the close
\* succeed, and extract_url returns True.
SaveWrite(i) ==
  /\ pc[i] = "writing"
  /\ files' = WriteFile(files, OutputPath(targets[i].title),
                        Overwrite(files[OutputPath(targets[i].title)], Markdown(i)))
  /\ pc' = [pc EXCEPT ![i] = "done"]
  /\ ret' = [ret EXCEPT ![i] = "True"]
  /\ worker' = Release(i)
  /\ html' = [html EXCEPT ![i] = "None"]
  /\ events' = [events EXCEPT ![i] = Append(@, <<"success", attempt[i] + 1>>)]
  /\ UNCHANGED << fixedVars, mainVars, attempt, driver, sessions,
                  histVars, faults, stages >>

\* extractor.py:187: the write raises (a transient fault); the file is closed
\* as it is.
SaveWriteFails(i) ==
  /\ pc[i] = "writing"
  /\ Except(i, 1)
  /\ UNCHANGED << fixedVars, mainVars, attempt, driver, sessions,
                  files, fetchCalls, stages >>

\* After the sleep only the stage that failed is run again: an attempt that
\* failed in the save goes on at the save, with no new fetch.
WakeAtFailedStage(i) ==
  /\ pc[i] = "sleep"
  /\ attempt' = [attempt EXCEPT ![i] = @ + 1]
  /\ IF Len(stages[i]) = 4
     THEN /\ pc' = [pc EXCEPT ![i] = "save"]
          /\ stages' = [stages EXCEPT ![i] = SubSeq(@, 1, 3)]
          /\ UNCHANGED << driver, sessions, html, fetchCalls, faults, events >>
     ELSE /\ pc' = [pc EXCEPT ![i] = "browser"]
          /\ FetchTry(i, attempt[i] + 1)
  /\ UNCHANGED << fixedVars, mainVars, worker, ret, files, failed, sleeps >>

\* extractor.py:68, 46 and 49: the sleep returns, the loop starts the next
\* attempt and calls _fetch_html.
Wake(i) ==
  /\ pc[i] = "sleep"
  /\ attempt' = [attempt EXCEPT ![i] = @ + 1]
  /\ pc' = [pc EXCEPT ![i] = "browser"]
  /\ FetchTry(i, attempt[i] + 1)
  /\ UNCHANGED << fixedVars, mainVars, worker, ret, files, failed, sleeps >>

\* -------------------------------------------------------------------- main
\* What main() appends for a finished future (main.py:40-45): the call's
\* return value ("True", "False" or "None"), or False when future.result()
\* raises.
Outcome(r) == IF r = "raise" THEN "False" ELSE r

\* main.py:38-42: as_completed yields a finished future whose call returned.
CollectResult(i) ==
  /\ mainpc = "collect"
  /\ pc[i] = "done" /\ i \notin collected /\ ret[i] # "raise"
  /\ results' = Append(results, Outcome(ret[i]))
  /\ collected' = collected \cup {i}
  /\ UNCHANGED << fixedVars, mainpc, report, worker, pc, attempt, driver, sessions, html,
                  ret, files, histVars, faults, obsVars >>

\* The except branch also cancels the calls still queued.
CollectExceptionCancels(i) ==
  /\ mainpc = "collect"
  /\ pc[i] = "done" /\ i \notin collected /\ ret[i] = "raise"
  /\ results' = Append(results, Outcome(ret[i]))
  /\ collected' = collected \cup {i}
  /\ pc' = [j \in Futures |-> IF pc[j] = "queued" THEN "done" ELSE pc[j]]
  /\ ret' = [j \in Futures |-> IF pc[j] = "queued" THEN "raise" ELSE ret[j]]
  /\ UNCHANGED << fixedVars, mainpc, report, worker, attempt, driver, sessions,
                  html, files, histVars, faults, obsVars >>

\* The except branch without its append.
CollectExceptionDrops(i) ==
  /\ mainpc = "collect"
  /\ pc[i] = "done" /\ i \notin collected /\ ret[i] = "raise"
  /\ collected' = collected \cup {i}
  /\ UNCHANGED << fixedVars, mainpc, results, report, worker, pc, attempt, driver,
                  sessions, html, ret, files, histVars, faults, obsVars >>

\* main.py:38-45: as_completed yields a finished future whose call raised.
CollectException(i) ==
  /\ mainpc = "collect"
  /\ pc[i] = "done" /\ i \notin collected /\ ret[i] = "raise"
  /\ results' = Append(results, Outcome(ret[i]))
  /\ collected' = collected \cup {i}
  /\ UNCHANGED << fixedVars, mainpc, report, worker, pc, attempt, driver, sessions, html,
                  ret, files, histVars, faults, obsVars >>

\* main.py:48: sum(1 for r in results if r is True).
SuccessCount(rs) == Cardinality({k \in 1..Len(rs) : rs[k] = "True"})

\* main.py:49.
FailureCount(rs) == Len(rs) - SuccessCount(rs)

\* The loop ends at the first future yielded.
FirstCollected == collected # {} \/ Futures = {}

\* as_completed is exhausted once every submitted future has been yielded.
AllCollected == collected = Futures

\* main.py:38, 46-55: the for loop ends, the with block joins the pool, and
\* the counts are printed.
Report ==
  /\ mainpc = "collect"
  /\ AllCollected
  /\ report' = [printed |-> TRUE, success |-> SuccessCount(results),
                failure |-> FailureCount(results), total |-> Len(results)]
  /\ mainpc' = "done"
  /\ UNCHANGED << fixedVars, results, collected, worker, pc, attempt, driver, sessions, html,
                  ret, files, histVars, faults, obsVars >>

Next ==
  \/ Submit
  \/ Start
  \/ \E i \in Futures : FetchReturns(i)
  \/ \E i \in Futures : FetchFalsy(i)
  \/ \E i \in Futures : SaveOpen(i)
  \/ \E i \in Futures : SaveOpenFails(i)
  \/ \E i \in Futures : SaveWrite(i)
  \/ \E i \in Futures : SaveWriteFails(i)
  \/ \E i \in Futures : Wake(i)
  \/ \E i \in Futures : CollectResult(i)
  \/ \E i \in Futures : CollectException(i)
  \/ Report

Spec == Init /\ [][Next]_vars

\* The scheduler runs every thread that can take a step: main, the pool
\* threads taking queued calls, and each running call.
ThreadStep(i) ==
  \/ FetchReturns(i) \/ FetchFalsy(i) \/ SaveOpen(i) \/ SaveOpenFails(i)
  \/ SaveWrite(i) \/ SaveWriteFails(i) \/ Wake(i)

Fairness ==
  /\ WF_vars(Submit)
  /\ WF_vars(Start)
  /\ WF_vars(Report)
  /\ \A i \in 1..MaxItems : WF_vars(i \in Futures /\ ThreadStep(i))
  /\ \A i \in 1..MaxItems :
       WF_vars(i \in Futures /\ (CollectResult(i) \/ CollectException(i)))

FairSpec == Spec /\ Fairness

\* ------------------------------------------------------ other retry limits
\* Largest retry limit a run is configured with.
MaxRetriesTried == 4

\* MAX_RETRIES is configuration (config.py:26): runs of the smaller work sets
\* under every retry limit from 0 to MaxRetriesTried.
ConfigInit ==
  /\ targets \in {Take(n) : n \in 0..2} \cup Extras
  /\ maxRetries \in 0..MaxRetriesTried
  /\ cleaner = NoCleaner
  /\ Begin

ConfigSpec == ConfigInit /\ [][Next]_vars

\* ------------------------------------------------------ _clean_html alone
\* Largest number of elements directly below the body of a page.
MaxKids == 2

WithClass(n, c) == [n EXCEPT !.class = {c}]

\* The elements pages are built from: denylisted ones (nav, script), the
\* five kinds of content region, a span carrying the class "content" (no
\* div), a plain div and a paragraph of text.
Shapes ==
  { Elem("nav", <<>>), Elem("script", <<>>),
    Elem("main", <<>>), Elem("article", <<>>),
    WithClass(Elem("div", <<>>), "content"),
    [Elem("div", <<>>) EXCEPT !.id = "content"],
    [Elem("div", <<>>) EXCEPT !.role = "main"],
    WithClass(Elem("span", <<>>), "content"),
    Elem("div", <<>>), Text("t") }

\* An element alone, or with one element inside it (a script and a paragraph
\* hold no elements).
Nodes ==
  Shapes \cup
  { [c EXCEPT !.kids = << k >>] :
      c \in Shapes \ {Elem("script", <<>>), Text("t")}, k \in Shapes }

KidSeqs == UNION { [1..n -> Nodes] : n \in 0..MaxKids }

\* The pages _clean_html is tried on.  lxml puts what it parses under one
\* html element: with a body holding up to MaxKids elements; with a class on
\* the html or the body element; or with a head and no body.
Docs ==
  { << Elem("html", << Elem("body", ks) >>) >> : ks \in KidSeqs }
  \cup { << Elem("html", << WithClass(Elem("body", << n >>), c) >>) >> :
           n \in Nodes, c \in {"ad", "page"} }
  \cup { << WithClass(Elem("html", << Elem("body", << n >>) >>), c) >> :
           n \in Nodes, c \in {"ad", "page"} }
  \cup { << Elem("html", << Elem("head", ks) >>) >> :
           ks \in {<<>>, << Elem("script", <<>>) >>} }

\* _clean_html is called with a page (extractor.py:124).
CleanInit ==
  /\ cleaner \in { [stage |-> "parsed", html |-> d, soup |-> d, result |-> <<>>] :
                     d \in Docs }
  /\ targets = <<>>
  /\ maxRetries = MAX_RETRIES
  /\ Begin

\* extractor.py:127-137: the unwanted elements are removed.
CleanStrip ==
  /\ cleaner.stage = "parsed"
  /\ cleaner' = [cleaner EXCEPT !.stage = "stripped",
                                !.soup = RemoveUnwanted(cleaner.soup)]
  /\ UNCHANGED << targets, maxRetries, mainVars, worker, pc, attempt, driver,
                  sessions, html, ret, files, histVars, faults, obsVars >>

\* extractor.py:139-151: the content region is selected and returned.
CleanSelect ==
  /\ cleaner.stage = "stripped"
  /\ cleaner' = [cleaner EXCEPT !.stage = "returned",
                                !.result = SelectContent(cleaner.soup)]
  /\ UNCHANGED << targets, maxRetries, mainVars, worker, pc, attempt, driver,
                  sessions, html, ret, files, histVars, faults, obsVars >>

CleanNext == CleanStrip \/ CleanSelect

CleanSpec == CleanInit /\ [][CleanNext]_vars

\* ------------------------------------------------------------------ claims
Running == {i \in Futures : pc[i] \in {"browser", "save", "writing", "sleep"}}

Succeeded(i) == pc[i] = "done" /\ ret[i] = "True"
Exhausted(i) == pc[i] = "done" /\ ret[i] = "False"
Raised(i) == pc[i] = "done" /\ ret[i] = "raise"

\* C1: once main() has printed its report, total = succeeded + failed and
\* total = the number of targets; every yielded future has appended exactly
\* one outcome to results, and the counts are those of the calls that
\* returned True and of those that returned False or raised.
ReportCountsEveryItem ==
  /\ Len(results) = Cardinality(collected)
  /\ report.printed =>
       /\ report.total = report.success + report.failure
       /\ report.total = Len(targets)
       /\ report.success = Cardinality({i \in Futures : ret[i] = "True"})
       /\ report.failure = Cardinality({i \in Futures : ret[i] \in {"False", "raise"}})

\* A run of more targets than pool threads (with repeated targets) that
\* reported one success, one exhaustion and one raised call.
ReportCountsEveryItemWitness ==
  /\ report.printed
  /\ Len(targets) > MAX_WORKERS
  /\ \E i, j, k \in Futures : Succeeded(i) /\ Exhausted(j) /\ Raised(k)
  /\ \E i, j \in Futures : i # j /\ targets[i] = targets[j]

\* The sleeps base * 2^(n-1), n = 1..len, with base = 1.
BackoffSchedule(len) == [n \in 1..len |-> 2 ^ (n - 1)]

\* C2: an attempt whose _fetch_html call returned None (or an empty page)
\* ends in the except block; the sleeps taken follow 1, 2, 4, ...; a call
\* that returns False has made exactly MAX_RETRIES attempts and slept
\* MAX_RETRIES - 1 times; and a target whose fetch fails every time never
\* yields True.
AlwaysFailingRenderExhausts ==
  /\ [](\A i \in Futures :
          /\ sleeps[i] = BackoffSchedule(Len(sleeps[i]))
          /\ Exhausted(i) =>
               /\ fetchCalls[i] = MAX_RETRIES
               /\ failed[i] = MAX_RETRIES
               /\ Len(sleeps[i]) = MAX_RETRIES - 1
          /\ (~targets[i].wellFormed /\ pc[i] = "done") => ret[i] # "True")
  /\ [][\A i \in Futures :
          (pc[i] = "browser" /\ NotHtml(html[i]) /\ pc'[i] # "browser")
            => (failed'[i] = failed[i] + 1 /\ pc'[i] \in {"sleep", "done"}
                /\ ret'[i] # "True")]_vars

\* A target whose fetch fails on every attempt has been given up after
\* MAX_RETRIES fetches, having slept 1 and then 2.
AlwaysFailingRenderExhaustsWitness ==
  \E i \in Futures :
    /\ ~targets[i].wellFormed
    /\ Exhausted(i)
    /\ fetchCalls[i] = 3
    /\ sleeps[i] = <<1, 2>>

\* C3: an attempt that completes all its stages ends the call with True,
\* after exactly (failed attempts + 1) fetches; a finished call is final: it
\* makes no further fetch and its result does not change.
SuccessEndsTheCall ==
  /\ [](\A i \in Futures :
          ret[i] = "True" =>
            /\ pc[i] = "done"
            /\ fetchCalls[i] = failed[i] + 1
            /\ fetchCalls[i] <= MAX_RETRIES
            /\ Len(sleeps[i]) = failed[i])
  /\ [][\A i \in Futures :
          /\ (pc[i] = "writing" /\ pc'[i] # "writing" /\ failed'[i] = failed[i])
               => (pc'[i] = "done" /\ ret'[i] = "True"
                   /\ fetchCalls'[i] = failed[i] + 1)
          /\ pc[i] = "done"
               => (pc'[i] = "done" /\ ret'[i] = ret[i]
                   /\ fetchCalls'[i] = fetchCalls[i]
                   /\ failed'[i] = failed[i] /\ sleeps'[i] = sleeps[i])]_vars

\* A call that succeeded on its last permitted attempt.
SuccessEndsTheCallWitness ==
  \E i \in Futures :
    Succeeded(i) /\ fetchCalls[i] = MAX_RETRIES /\ failed[i] = MAX_RETRIES - 1

\* C4: at most MAX_WORKERS calls have started and not finished (sleeping
\* ones included); each of them is held by exactly one pool thread, and a
\* pool thread holds only a started, unfinished call.
ConcurrencyBound ==
  /\ Cardinality(Running) <= MAX_WORKERS
  /\ \A i \in Running : Cardinality({w \in Workers : worker[w] = i}) = 1
  /\ \A w \in Workers : worker[w] # 0 => worker[w] \in Running

\* Every pool thread is busy, one of the calls is in its backoff sleep, and
\* a further call waits in the queue.
ConcurrencyBoundWitness ==
  /\ Cardinality(Running) = MAX_WORKERS
  /\ \E i \in Running : pc[i] = "sleep"
  /\ \E i \in Futures : pc[i] = "queued"

\* C5: a live browser session belongs to a _fetch_html call that has not
\* yet run its finally clause: once the call has returned, with a page or
\* after any failure, the session it launched is gone.
SessionTornDown ==
  \A s \in sessions :
    /\ s.owner \in Futures
    /\ pc[s.owner] = "browser"
    /\ driver[s.owner]
    /\ s.attempt = attempt[s.owner]

\* No fault was injected, a fetch of the malformed url has returned None
\* after launching its session, another fetch has returned its page, and no
\* session is live.
SessionTornDownWitness ==
  /\ faults = 0
  /\ sessions = {}
  /\ \E i \in Futures : ~targets[i].wellFormed /\ pc[i] = "sleep"
  /\ \E i \in Futures : pc[i] = "save"

\* C6: at most MAX_WORKERS sessions are live; the live sessions belong to
\* different calls, each held by exactly one pool thread; and a call that is
\* sleeping, saving, queued or finished owns no live session.
SessionsBounded ==
  /\ Cardinality(sessions) <= MAX_WORKERS
  /\ \A s, t \in sessions : s.owner = t.owner => s = t
  /\ \A s \in sessions : Cardinality({w \in Workers : worker[w] = s.owner}) = 1
  /\ \A i \in Futures :
       pc[i] \in {"unsubmitted", "queued", "save", "writing", "sleep", "done"}
         => ~\E s \in sessions : s.owner = i

\* MAX_WORKERS sessions are live at once, one of them launched by a retry,
\* while a further call waits in the queue.
SessionsBoundedWitness ==
  /\ Cardinality(sessions) = MAX_WORKERS
  /\ \E s \in sessions : s.attempt > 0
  /\ \E i \in Futures : pc[i] = "queued"

\* C7: under the scheduler's fairness the report is eventually printed, and
\* it is printed only when every call has finished (returned True, returned
\* False after MAX_RETRIES failed attempts, or raised) and been collected.
RunTerminates ==
  /\ <>(report.printed)
  /\ [](report.printed =>
          \A i \in Futures :
            /\ i \in collected
            /\ \/ Succeeded(i)
               \/ Exhausted(i) /\ failed[i] = MAX_RETRIES
               \/ Raised(i))

\* A finished run of more targets than pool threads, with a success and an
\* exhaustion.
RunTerminatesWitness ==
  /\ report.printed
  /\ Len(targets) > MAX_WORKERS
  /\ \E i, j \in Futures : Succeeded(i) /\ Exhausted(j)

\* What belongs to one call.
Local(i) ==
  << pc[i], attempt[i], driver[i], html[i], ret[i], fetchCalls[i], failed[i],
     sleeps[i] >>

\* C8: after submission every step changes the state of at most one call; a
\* step of main() that records an outcome (a result or a caught exception)
\* changes no call's state; a call finishes only by a step of its own
\* pipeline, with a result fixed by its own attempts; and results holds one
\* True per collected call that returned True and one False per other
\* collected call.
FailureIsolation ==
  /\ [](/\ SuccessCount(results) = Cardinality({i \in collected : ret[i] = "True"})
        /\ \A i \in collected : pc[i] = "done")
  /\ [][mainpc # "submit" =>
          /\ \A i, j \in Futures :
               (i # j /\ Local(i)' # Local(i)) => Local(j)' = Local(j)
          /\ results' # results => \A i \in Futures : Local(i)' = Local(i)
          /\ \A i \in Futures :
               (pc[i] # "done" /\ pc'[i] = "done") =>
                 /\ pc[i] \in {"browser", "save", "writing"}
                 /\ \/ ret'[i] = "True" /\ failed'[i] = failed[i]
                    \/ ret'[i] = "False" /\ failed'[i] = MAX_RETRIES
                    \/ ret'[i] = "raise" /\ failed'[i] = failed[i] + 1]_vars

\* A raised call has been recorded while a sibling is still running and
\* another is still queued.
FailureIsolationWitness ==
  /\ \E i \in collected : ret[i] = "raise"
  /\ \E j \in Futures : pc[j] \in {"browser", "save", "writing", "sleep"}
  /\ \E j \in Futures : pc[j] = "queued"

\* A target that can never be processed: a malformed url, or a title whose
\* output path cannot be opened.
Invalid(t) == ~t.wellFormed \/ ~CanOpen(OutputPath(t.title))

\* C9 as stated: a structurally invalid item makes exactly one attempt and
\* takes no backoff sleep.
InvalidItemNotRetried ==
  \A i \in Futures :
    Invalid(targets[i]) => (fetchCalls[i] <= 1 /\ sleeps[i] = <<>>)

\* C9, amended: an invalid item is retried like any other failure: when its
\* call returns, it returns False after MAX_RETRIES attempts and
\* MAX_RETRIES - 1 backoff sleeps; before that it is never given up early.
InvalidItemRetried ==
  \A i \in Futures :
    Invalid(targets[i]) =>
      /\ ret[i] # "True"
      /\ (pc[i] = "done" /\ ret[i] # "raise") =>
           /\ ret[i] = "False"
           /\ fetchCalls[i] = MAX_RETRIES
           /\ failed[i] = MAX_RETRIES
           /\ Len(sleeps[i]) = MAX_RETRIES - 1

\* A target whose title names a missing directory: every attempt fetched the
\* page and failed to open the file, MAX_RETRIES times.
InvalidItemRetriedWitness ==
  \E i \in Futures :
    /\ targets[i].wellFormed
    /\ ~CanOpen(OutputPath(targets[i].title))
    /\ Exhausted(i)
    /\ fetchCalls[i] = MAX_RETRIES
    /\ Len(sleeps[i]) = MAX_RETRIES - 1

\* C10 as stated: a title that resolves outside the output directory is
\* rejected: its save is never opened, its call never returns True, and no
\* file outside the output directory is ever created or modified.
SaveStaysUnderOutputDir ==
  /\ \A p \in DOMAIN files : UnderOutputDir(p)
  /\ \A i \in Futures :
       ~UnderOutputDir(OutputPath(targets[i].title))
         => (pc[i] # "writing" /\ ret[i] # "True")

\* The calls inside a persist (between the open for writing and the close)
\* on path p.
Writers(p) ==
  {i \in Futures : pc[i] = "writing" /\ OutputPath(targets[i].title) = p}

\* C11 as stated: for every work set, each path under the output directory
\* has at most one call inside a persist on it at any time.
NoTwoWritersOnOnePath ==
  \A i \in Futures :
    UnderOutputDir(OutputPath(targets[i].title))
      => Cardinality(Writers(OutputPath(targets[i].title))) <= 1

\* The path call i persists to.
PathOf(i) == OutputPath(targets[i].title)

\* C12: every artifact lies at the path its label gives; opening a path for
\* a persist empties the artifact already there and adds no second one; and
\* a persist that closes with the artifact as its own open left it, no other
\* call being inside a persist on the path, leaves exactly its own content
\* there and no further artifact.
PersistOverwrites ==
  /\ [](DOMAIN files \subseteq {PathOf(i) : i \in Futures})
  /\ [][\A j \in Futures :
          /\ (pc[j] = "save" /\ pc'[j] = "writing") =>
               /\ files'[PathOf(j)] = <<>>
               /\ DOMAIN files' = DOMAIN files \cup {PathOf(j)}
               /\ \A q \in DOMAIN files : q # PathOf(j) => files'[q] = files[q]
          /\ (pc[j] = "writing" /\ ret'[j] = "True" /\ Writers(PathOf(j)) = {j}
              /\ files[PathOf(j)] = <<>>) =>
               /\ files'[PathOf(j)] = Markdown(j)
               /\ DOMAIN files' = DOMAIN files]_vars

\* Two targets with one title and different content were both persisted,
\* and the artifact holds exactly the shorter content: the longer one was
\* persisted first and then replaced.
PersistOverwritesWitness ==
  \E i, j \in Futures :
    /\ PathOf(i) = PathOf(j)
    /\ Succeeded(i) /\ Succeeded(j)
    /\ Len(Markdown(i)) < Len(Markdown(j))
    /\ files = (PathOf(i) :> Markdown(i))

\* The artifacts the output directory holds.
Artifacts == {p \in DOMAIN files : UnderOutputDir(p)}

\* C13 as stated: after a run from an empty output directory, of targets
\* with pairwise distinct titles, in which no fault struck (a fetch fails
\* only where the url makes every fetch fail), the report counts the targets
\* whose fetch succeeds as succeeded and the others as failed, and the output
\* directory holds exactly one artifact per succeeded target, with that
\* target's content, and none for a failed one.
EndToEnd ==
  ( /\ report.printed
    /\ faults = 0
    /\ \A i, j \in Futures : i # j => targets[i].title # targets[j].title )
  => /\ report.success = Cardinality({i \in Futures : targets[i].wellFormed})
     /\ report.failure = Cardinality({i \in Futures : ~targets[i].wellFormed})
     /\ \A i \in Futures :
          IF ret[i] = "True"
          THEN PathOf(i) \in Artifacts /\ files[PathOf(i)] = Markdown(i)
          ELSE PathOf(i) \notin DOMAIN files
     /\ Cardinality(Artifacts) = Cardinality({i \in Futures : ret[i] = "True"})

\* The last thing call i logged, or <<>>.
LastEvent(i) == IF events[i] = <<>> THEN <<>> ELSE events[i][Len(events[i])]

\* C14 as stated: under every retry limit each collected call has put
\* exactly one result into results, every result is a boolean, and a call
\* that has returned returned True exactly when its last attempt succeeded
\* and False exactly when it failed its last permitted attempt.
OneBooleanResultPerItem ==
  /\ Len(results) = Cardinality(collected)
  /\ report.printed => Len(results) = Len(targets)
  /\ \A k \in 1..Len(results) : results[k] \in {"True", "False"}
  /\ \A i \in Futures :
       (pc[i] = "done" /\ ret[i] # "raise") =>
         /\ ret[i] \in {"True", "False"}
         /\ ret[i] = "True" <=> LastEvent(i) = <<"success", failed[i] + 1>>
         /\ ret[i] = "False" <=>
              (LastEvent(i) = <<"exhausted", maxRetries>> /\ failed[i] = maxRetries)

\* The stages of one attempt, in the order extract_url calls them
\* (extractor.py:49, 54, 57, 60).
Pipeline == <<"render", "sanitize", "transform", "persist">>

\* C15: the stages an attempt has invoked are always an initial part of
\* render, sanitize, transform, persist; sanitize is reached only with a
\* page that is neither absent nor empty; a render that returned nothing or
\* an empty page ends the attempt as failed with no further stage invoked
\* and no file changed by the attempt; and after a failed attempt the call
\* invokes no stage until the next attempt starts again with render.
FailedStageAbortsAttempt ==
  /\ [](\A i \in Futures :
          /\ IsPrefix(stages[i], Pipeline)
          /\ pc[i] = "browser" => stages[i] = <<"render">>
          /\ pc[i] = "save" =>
               (stages[i] = SubSeq(Pipeline, 1, 3) /\ html[i] \notin {"None", "Empty"})
          /\ pc[i] = "writing" => stages[i] = Pipeline)
  /\ [][\A i \in Futures :
          /\ (pc[i] = "browser" /\ html[i] \in {"None", "Empty"}
              /\ Local(i)' # Local(i)) =>
               /\ failed'[i] = failed[i] + 1
               /\ pc'[i] \in {"sleep", "done"}
               /\ stages'[i] = <<"render">>
               /\ files' = files
          /\ fetchCalls'[i] # fetchCalls[i] => files' = files
          /\ failed'[i] # failed[i] =>
               (pc'[i] \in {"sleep", "done"} /\ files' = files)
          /\ (pc[i] \in {"sleep", "done"} /\ stages'[i] # stages[i]) =>
               (pc[i] = "sleep" /\ stages'[i] = <<"render">>
                /\ attempt'[i] = attempt[i] + 1)]_vars

\* A call whose first render failed sleeps, having invoked render only,
\* while the artifact at its path, persisted by another call, is as that
\* call left it.
FailedStageAbortsAttemptWitness ==
  \E i, j \in Futures :
    /\ i # j /\ PathOf(i) = PathOf(j)
    /\ Succeeded(j)
    /\ pc[i] = "sleep" /\ failed[i] = 1 /\ stages[i] = <<"render">>
    /\ files[PathOf(i)] = Markdown(j)

\* How the except block leaves a call whose attempt (the one numbered
\* attempt[i] + 1) has just failed: asleep for the backoff before the next
\* attempt, given up after the last permitted one, or ended by an exception
\* of the handler itself.
FailureHandled(i) ==
  /\ failed'[i] = failed[i] + 1
  /\ \/ /\ attempt[i] + 1 < maxRetries
        /\ pc'[i] = "sleep"
        /\ sleeps'[i] = Append(sleeps[i], 2 ^ attempt[i])
        /\ ret'[i] = "none"
     \/ /\ attempt[i] + 1 = maxRetries
        /\ pc'[i] = "done" /\ ret'[i] = "False"
        /\ sleeps'[i] = sleeps[i]
     \/ pc'[i] = "done" /\ ret'[i] = "raise"

\* C16: an attempt that fails in the save is handled as one that fails in
\* the fetch; the next attempt starts over at the fetch, with a new
\* _fetch_html call and a session of its own, nothing of the failed attempt
\* being kept across the sleep; the save is reached only from the fetch of
\* the same attempt; and a call given up has failed MAX_RETRIES attempts.
PersistFailureRetriesWholeAttempt ==
  /\ [](\A i \in Futures :
          /\ pc[i] \in {"browser", "save", "writing"} =>
               fetchCalls[i] = attempt[i] + 1
          /\ pc[i] = "sleep" =>
               (html[i] = "None" /\ ~driver[i]
                /\ \A s \in sessions : s.owner # i)
          /\ Exhausted(i) => failed[i] = maxRetries)
  /\ [][\A i \in Futures :
          /\ (pc[i] \in {"browser", "save", "writing"}
              /\ pc'[i] \in {"sleep", "done"} /\ ret'[i] # "True")
               => FailureHandled(i)
          /\ (pc[i] \in {"save", "writing"} /\ pc'[i] # pc[i]) =>
               pc'[i] \in {"writing", "sleep", "done"}
          /\ (pc[i] = "sleep" /\ pc'[i] # "sleep") =>
               /\ pc'[i] = "browser"
               /\ attempt'[i] = attempt[i] + 1
               /\ fetchCalls'[i] = fetchCalls[i] + 1
               /\ stages'[i] = <<"render">>
               /\ driver'[i] =>
                    Session(i, attempt'[i]) \in sessions' \ sessions
          /\ (pc'[i] = "save" /\ pc[i] # "save") =>
               (pc[i] = "browser" /\ html[i] = "Page"
                /\ fetchCalls[i] = attempt[i] + 1)]_vars

\* A call whose first attempt opened its file and failed in the write is
\* in the fetch of its second attempt, with a session of that attempt.
PersistFailureRetriesWholeAttemptWitness ==
  \E i \in Futures :
    /\ pc[i] = "browser" /\ attempt[i] = 1 /\ fetchCalls[i] = 2
    /\ PathOf(i) \in DOMAIN files /\ files[PathOf(i)] = <<>>
    /\ \A j \in Futures : j # i => PathOf(j) # PathOf(i)
    /\ Session(i, 1) \in sessions

\* The messages "Attempt n/MAX_RETRIES failed" of call i, in order.
FailedReports(i) == SelectSeq(events[i], LAMBDA e : e[1] = "failed")

\* C17: the failed attempts of a call are reported one by one with the
\* numbers 1, 2, ... and none is left out; the report of attempt n comes
\* directly after what attempt n did and directly before the sleep that
\* precedes attempt n + 1 (n < MAX_RETRIES) or before the message of
\* exhaustion and the return of False (n = MAX_RETRIES); attempt n + 1 is
\* started only after attempt n was reported.  The one attempt whose except
\* block raised while building its message is reported by main instead, as
\* the error of the item.
FailedAttemptReportedFirst ==
  \A i \in Futures :
    LET ev == events[i]
        fr == FailedReports(i)
    IN  /\ Len(fr) = failed[i] - (IF ret[i] = "raise" THEN 1 ELSE 0)
        /\ \A n \in DOMAIN fr : fr[n] = <<"failed", n>>
        /\ \A k \in DOMAIN ev :
             /\ ev[k][1] = "failed" =>
                  /\ k > 1 /\ ev[k - 1] = <<"fetch", ev[k][2]>>
                  /\ k < Len(ev)
                  /\ ev[k + 1] = IF ev[k][2] < maxRetries
                                 THEN <<"sleep", 2 ^ (ev[k][2] - 1)>>
                                 ELSE <<"exhausted", maxRetries>>
             /\ (ev[k][1] = "fetch" /\ ev[k][2] > 1) =>
                  /\ k > 2 /\ ev[k - 1][1] = "sleep"
                  /\ ev[k - 2] = <<"failed", ev[k][2] - 1>>
             /\ ev[k][1] \in {"sleep", "exhausted"} =>
                  (k > 1 /\ ev[k - 1][1] = "failed")
        /\ pc[i] = "sleep" =>
             (Len(ev) >= 2 /\ ev[Len(ev) - 1] = <<"failed", attempt[i] + 1>>)
        /\ ret[i] = "False" =>
             /\ Len(ev) >= 2
             /\ ev[Len(ev) - 1] = <<"failed", maxRetries>>
             /\ ev[Len(ev)] = <<"exhausted", maxRetries>>
        /\ (ret[i] = "raise" /\ i \in collected) =>
             \E k \in DOMAIN results : results[k] = "False"

\* A call asleep after its second failed attempt, both reported; and a call
\* that returned False after MAX_RETRIES reports.
FailedAttemptReportedFirstWitness ==
  /\ \E i \in Futures : pc[i] = "sleep" /\ Len(FailedReports(i)) = 2
  /\ \E j \in Futures :
       ret[j] = "False" /\ Len(FailedReports(j)) = maxRetries

\* Whether element n is a content region of the r-th kind: main, article,
\* a div of class "content", a div with id "content", a div with role
\* "main".
IsRegion(n, r) ==
  CASE r = 1 -> n.tag = "main"
    [] r = 2 -> n.tag = "article"
    [] r = 3 -> n.tag = "div" /\ "content" \in n.class
    [] r = 4 -> n.tag = "div" /\ n.id = "content"
    [] r = 5 -> n.tag = "div" /\ n.role = "main"

\* The region the ordered fallback has to pick in a document whose elements
\* in document order are d: the first element of the first kind that occurs
\* at all.
IsPreferredRegion(d, k) ==
  \E r \in 1..5 :
    /\ IsRegion(d[k], r)
    /\ \A j \in 1..(k - 1) : ~IsRegion(d[j], r)
    /\ \A q \in 1..(r - 1) : \A j \in DOMAIN d : ~IsRegion(d[j], q)

\* C18: what _clean_html returns is, of the document left after the
\* removals, the first main element, else the first article, else the first
\* div of class "content", else the first div with id "content", else the
\* first div with role "main", else the body, else the whole document; and
\* it is never empty.
RegionByOrderedFallbackNeverEmpty ==
  cleaner.stage = "returned" =>
    LET d == Descendants(cleaner.soup)
        regions == {k \in DOMAIN d : \E r \in 1..5 : IsRegion(d[k], r)}
        bodies == {k \in DOMAIN d : d[k].tag = "body"}
    IN  /\ regions # {} =>
              \E k \in regions :
                IsPreferredRegion(d, k) /\ cleaner.result = << d[k] >>
        /\ (regions = {} /\ bodies # {}) =>
              \E k \in bodies :
                /\ \A j \in bodies : k <= j
                /\ cleaner.result = << d[k] >>
        /\ (regions = {} /\ bodies = {}) => cleaner.result = cleaner.soup
        /\ cleaner.result # <<>>

\* Whether element n matches one of the unwanted selectors.
Denylisted(n) ==
  \E k \in DOMAIN UnwantedSelectors : Matches(n, UnwantedSelectors[k])

\* A document without its denylisted elements and without anything below
\* them.
RECURSIVE Shown(_)
Shown(soup) ==
  IF soup = <<>> THEN <<>>
  ELSE (IF Denylisted(Head(soup)) THEN <<>>
        ELSE << [Head(soup) EXCEPT !.kids = Shown(Head(soup).kids)] >>)
       \o Shown(Tail(soup))

\* C19 as stated: for a page holding a main element and a nav or script
\* element, wherever they are nested, _clean_html returns a main element
\* and what it returns holds no nav and no script element.
MainOnlyWhateverTheNesting ==
  LET d == Descendants(cleaner.html)
      r == Descendants(cleaner.result)
  IN (/\ cleaner.stage = "returned"
      /\ \E k \in DOMAIN d : d[k].tag = "main"
      /\ \E k \in DOMAIN d : d[k].tag \in {"nav", "script"})
     => /\ Len(cleaner.result) = 1 /\ cleaner.result[1].tag = "main"
        /\ \A k \in DOMAIN r : r[k].tag \notin {"nav", "script"}

\* C19: for a page with a main element that is neither denylisted nor inside
\* a denylisted element, _clean_html returns the first such main element in
\* document order, without the denylisted elements inside it; a main element
\* inside a nav (or another denylisted element) is removed with it; and
\* whatever is returned holds no denylisted element, so no nav and no script.
MainOutsideDenylistReturned ==
  cleaner.stage = "returned" =>
    LET d == Descendants(Shown(cleaner.html))
        r == Descendants(cleaner.result)
        mains == {k \in DOMAIN d : d[k].tag = "main"}
    IN  /\ mains # {} =>
              \E k \in mains :
                /\ \A j \in mains : k <= j
                /\ cleaner.result = << d[k] >>
        /\ mains = {} => \A k \in DOMAIN r : r[k].tag # "main"
        /\ \A k \in DOMAIN r : ~Denylisted(r[k])

\* A page whose main element holds a nav or a script element, and next to
\* it a nav element: the main element is returned empty.
MainOutsideDenylistReturnedWitness ==
  LET d == Descendants(cleaner.html)
  IN /\ cleaner.stage = "returned"
     /\ \E k \in DOMAIN d :
          /\ d[k].tag = "main" /\ d[k].kids # <<>>
          /\ d[k].kids[1].tag \in {"nav", "script"}
     /\ \E k \in DOMAIN d : d[k].tag = "nav" /\ d[k].kids = <<>>
     /\ cleaner.result = << Elem("main", <<>>) >>

\* The seconds call i has slept in all.
RECURSIVE TotalSlept(_)
TotalSlept(sl) == IF sl = <<>> THEN 0 ELSE Head(sl) + TotalSlept(Tail(sl))

\* C20: a call sleeps only between two attempts.  While it runs it has
\* slept once per attempt before the current one, and it sleeps only when
\* an attempt is still to come; a call that returned False slept
\* MAX_RETRIES - 1 times, 2^(MAX_RETRIES - 1) - 1 seconds in all, and its
\* record ends with the report of attempt MAX_RETRIES and the message of
\* exhaustion, with no sleep after them; a call that returned True on
\* attempt k slept k - 1 times and its record ends with that success; a
\* finished call never sleeps again.
NoSleepAfterLastAttempt ==
  /\ [](\A i \in Futures :
          LET ev == events[i]
          IN  /\ Len(sleeps[i]) =
                   attempt[i] + (IF pc[i] = "sleep" THEN 1 ELSE 0)
              /\ pc[i] = "sleep" => attempt[i] + 1 < maxRetries
              /\ Exhausted(i) =>
                   /\ Len(sleeps[i]) = maxRetries - 1
                   /\ TotalSlept(sleeps[i]) = 2 ^ (maxRetries - 1) - 1
                   /\ Len(ev) >= 2
                   /\ ev[Len(ev) - 1] = <<"failed", maxRetries>>
                   /\ ev[Len(ev)] = <<"exhausted", maxRetries>>
              /\ Succeeded(i) =>
                   /\ Len(sleeps[i]) = attempt[i]
                   /\ Len(ev) >= 2
                   /\ ev[Len(ev) - 1] = <<"fetch", attempt[i] + 1>>
                   /\ ev[Len(ev)] = <<"success", attempt[i] + 1>>)
  /\ [][\A i \in Futures :
          /\ pc[i] = "done" => (sleeps'[i] = sleeps[i] /\ pc'[i] = "done")
          /\ pc'[i] = "done" => sleeps'[i] = sleeps[i]]_vars

\* A call that returned False after its last attempt and a call that
\* returned True on its third attempt, under a limit of at least three
\* attempts.
NoSleepAfterLastAttemptWitness ==
  /\ maxRetries >= 3
  /\ \E i \in Futures : Exhausted(i) /\ Len(sleeps[i]) = maxRetries - 1
  /\ \E j \in Futures :
       Succeeded(j) /\ attempt[j] = 2 /\ sleeps[j] = <<1, 2>>

====
